---- MODULE Spec2Model ----
(***************************************************************************)
(* Model of VirtualServerClient.ready (src/coreweave/virtual_server.py):   *)
(* the watch loop that consumes the event stream of one VirtualServer and  *)
(* decides when the caller's wait is over (Spec, FairSpec); of create()    *)
(* and update() of the client (ManifestSpec); of match_condition() on its  *)
(* own (MatchSpec); and of the create command of src/coreweave/main.py     *)
(* from its create request on (CommandSpec).                               *)
(*                                                                         *)
(* Python values are modelled as follows.  A dict is a function from its   *)
(* keys, so a key test `k in d` is `k \in DOMAIN d` and the empty dict is  *)
(* <<>>.  A list is a sequence (conditions[0] is conditions[1] here).      *)
(* None is the string "None" where the code holds a string or None, and    *)
(* the record NoneDict where it holds a dict or None.                      *)
(***************************************************************************)
EXTENDS Integers, Sequences, FiniteSets, TLC

VARIABLES
    pc,               \* position of ready(): "idle", "loop", "done", "raised"
    expected_status,  \* argument of ready()
    progress,         \* argument of ready(): TRUE when a progress handle is given
    tasks,            \* number of progress.add_task calls made by ready()
    subscribed,       \* the watch request of w.stream(...) is in place
    w_stop,           \* w._stop, set by w.stop()
    event,            \* loop variable of _wait: the event being processed
    ready_condition,  \* local of _wait
    result,           \* local of _wait
    ret,              \* value returned by ready(), meaningful when pc = "done"
    exc,              \* exception raised out of ready(), when pc = "raised"
    nevents,          \* number of events the loop body has processed
    failures,         \* number of transport failures of the stream
    twin,             \* a second call of ready(), with the same arguments but
                      \* the other value of progress, on the same stream
    api,              \* the calls of create/update and the requests they issued
    mc,               \* the last call of match_condition: arguments and value
    cli               \* the create command of main.py: position, locals, and
                      \* the file ~/.ssh/config

\* the variables of ready()
watch == <<pc, expected_status, progress, tasks, subscribed, w_stop, event,
           ready_condition, result, ret, exc, nevents, failures, twin>>

vars == <<pc, expected_status, progress, tasks, subscribed, w_stop, event,
          ready_condition, result, ret, exc, nevents, failures, twin, api, mc, cli>>

\* the variables no step of ready() touches
aside == <<api, mc, cli>>

-----------------------------------------------------------------------------
(* Bounds *)

\* events the stream delivers before it falls silent
MaxEvents == 3

\* calls of create/update on one client
MaxCalls == 2

\* pings the create command sends before the server answers
MaxPings == 2

-----------------------------------------------------------------------------
(* Python values *)

None == "None"

NoneDict == [py |-> "None"]

EmptyDict == <<>>

\* truth value of a string-or-None
Truthy(v) == v /= None /\ v /= ""

\* d.get(k, default)
Get(d, k, default) == IF k \in DOMAIN d THEN d[k] ELSE default

-----------------------------------------------------------------------------
(* The condition vocabulary and the matcher *)

EXPECTED_CONDITIONS ==
    [ Stopped     |-> [reason |-> "VirtualServerStopped", status |-> "False", type |-> "Ready"],
      Ready       |-> [reason |-> "VirtualServerReady",   status |-> "True",  type |-> "Ready"],
      Terminating |-> [reason |-> "Terminating",          status |-> "False", type |-> "Ready"] ]

\* match_condition without the comparison of the reason
match_condition_NoReason(condition, expected) ==
    IF expected \in DOMAIN EXPECTED_CONDITIONS
    THEN LET _c == EXPECTED_CONDITIONS[expected] IN
         IF /\ "status" \in DOMAIN condition /\ _c.status = condition.status
            /\ "type" \in DOMAIN condition /\ _c.type = condition.type
         THEN expected
         ELSE None
    ELSE None

\* lines 74-82
match_condition(condition, expected) ==
    IF expected \in DOMAIN EXPECTED_CONDITIONS
    THEN LET _c == EXPECTED_CONDITIONS[expected] IN
         IF /\ "reason" \in DOMAIN condition /\ _c.reason = condition.reason
            /\ "status" \in DOMAIN condition /\ _c.status = condition.status
            /\ "type" \in DOMAIN condition /\ _c.type = condition.type
         THEN expected
         ELSE None
    ELSE None

-----------------------------------------------------------------------------
(* What the event stream can deliver *)

\* the event types of a Kubernetes watch, as w.stream yields them
EventTypes == {"ADDED", "MODIFIED", "DELETED"}

IPs == {"10.0.0.5", "10.0.0.6"}

\* a condition that is in no vocabulary entry (same type and status as Stopped)
Unmatched == [reason |-> "Starting", status |-> "False", type |-> "Ready"]

\* a condition record without a reason
NoReason == [status |-> "True", type |-> "Ready"]

Vocabulary == {EXPECTED_CONDITIONS[n] : n \in DOMAIN EXPECTED_CONDITIONS}

ConditionLists ==
    {<<>>} \cup {<<c>> : c \in Vocabulary \cup {Unmatched, NoReason}}
           \cup {<<Unmatched, c>> : c \in Vocabulary}

Networks == {EmptyDict} \cup {[externalIP |-> ip] : ip \in IPs}

Statuses ==
    { c @@ n : c \in {EmptyDict} \cup {"conditions" :> l : l \in ConditionLists},
               n \in {EmptyDict} \cup {"network" :> x : x \in Networks} }

Objects == {EmptyDict} \cup {"status" :> s : s \in Statuses}

Events == [type : EventTypes, object : Objects]

\* names a caller may pass as expected_status; "Running" is not registered
ExpectedStatuses == {"Ready", "Stopped", "Terminating", "Running"}

-----------------------------------------------------------------------------
(* ready() *)

Init ==
    /\ pc = "idle"
    /\ expected_status = None
    /\ progress = FALSE
    /\ tasks = 0
    /\ subscribed = FALSE
    /\ w_stop = FALSE
    /\ event = EmptyDict
    /\ ready_condition = None
    /\ result = EmptyDict
    /\ ret = NoneDict
    /\ exc = None
    /\ nevents = 0
    /\ failures = 0
    /\ twin = [pc |-> "idle", progress |-> FALSE, tasks |-> 0,
               subscribed |-> FALSE, w_stop |-> FALSE, ready_condition |-> None,
               result |-> EmptyDict, ret |-> NoneDict, exc |-> None, nevents |-> 0]
    /\ api = [requests |-> <<>>, ncalls |-> 0, call |-> EmptyDict]
    /\ mc = EmptyDict
    /\ cli = [pc |-> "none"]

\* the locals of _wait that one pass of the loop body may change
Locals == [pc |-> pc, w_stop |-> w_stop, ready_condition |-> ready_condition,
           result |-> result, ret |-> ret, exc |-> exc]

\* lines 106-110: the deletion branch; break leaves the loop and _wait
\* returns None
DeleteBranch(st) ==
    [st EXCEPT !.ready_condition = "Deleted", !.w_stop = TRUE,
               !.pc = "done", !.ret = NoneDict]

\* ReadyBranch reading the address with a default instead of a subscript
ReadyBranch_Default(st, status) ==
    LET r == [ip |-> Get(Get(status, "network", EmptyDict), "externalIP", "")] IN
    [st EXCEPT !.result = r, !.w_stop = TRUE, !.pc = "done", !.ret = r]

\* lines 117-121: a Ready match; the subscripts of line 118 raise KeyError
\* when the key is missing
ReadyBranch(st, status) ==
    IF "network" \notin DOMAIN status \/ "externalIP" \notin DOMAIN status.network
    THEN [st EXCEPT !.pc = "raised", !.exc = "KeyError"]
    ELSE LET r == [ip |-> status.network.externalIP] IN
         [st EXCEPT !.result = r, !.w_stop = TRUE, !.pc = "done", !.ret = r]

\* OtherBranch without the call of w.stop()
OtherBranch_NoStop(st) == st

\* lines 122-124: w.stop() and back to the head of the loop
OtherBranch(st) == [st EXCEPT !.w_stop = TRUE]

\* MatchBranch taking the first condition of the list that matches
MatchBranch_AnyCondition(st, status, expected) ==
    LET conds == status.conditions
        rc == IF \E i \in 1..Len(conds) : match_condition(conds[i], expected) = expected
              THEN expected ELSE None
        s1 == [st EXCEPT !.ready_condition = rc]
    IN  IF ~Truthy(rc) THEN s1
        ELSE IF rc = "Ready" THEN ReadyBranch(s1, status)
        ELSE IF rc = "Stopped" \/ rc = "Terminating" THEN OtherBranch(s1)
        ELSE s1

\* lines 114-124: the first condition against the requested outcome
MatchBranch(st, status, expected) ==
    LET rc == match_condition(status.conditions[1], expected)
        s1 == [st EXCEPT !.ready_condition = rc]
    IN  IF ~Truthy(rc) THEN s1
        ELSE IF rc = "Ready" THEN ReadyBranch(s1, status)
        ELSE IF rc = "Stopped" \/ rc = "Terminating" THEN OtherBranch(s1)
        ELSE s1

\* lines 105-124: one pass of the loop body of _wait
LoopBody(st, e, expected) ==
    LET status == Get(e.object, "status", EmptyDict) IN
    IF e.type = "DELETE" THEN DeleteBranch(st)
    ELSE IF "conditions" \notin DOMAIN status THEN st
    ELSE IF Len(status.conditions) = 0
         THEN [st EXCEPT !.pc = "raised", !.exc = "IndexError"]
    ELSE MatchBranch(st, status, expected)

\* Announce where the branch of the progress handle does not call _wait()
Announce_ProgressOnly(prog) ==
    IF prog THEN [add_task |-> 1, print |-> 0, wait |-> FALSE]
            ELSE [add_task |-> 0, print |-> 1, wait |-> TRUE]

\* lines 126-131: with a progress handle the wait is announced by
\* progress.add_task, without one by print; both branches return _wait()
Announce(prog) ==
    IF prog THEN [add_task |-> 1, print |-> 0, wait |-> TRUE]
            ELSE [add_task |-> 0, print |-> 1, wait |-> TRUE]

\* ready(namespace, name, expected_status, progress): lines 84-103 and
\* 126-131, up to the point where the loop waits for its first event
Call(expected, prog) ==
    /\ pc = "idle"
    /\ pc' = IF Announce(prog).wait THEN "loop" ELSE "done"
    /\ expected_status' = expected
    /\ progress' = prog
    /\ tasks' = tasks + Announce(prog).add_task
    /\ subscribed' = Announce(prog).wait
    /\ w_stop' = FALSE
    /\ ready_condition' = None
    /\ result' = EmptyDict
    /\ UNCHANGED <<event, ret, exc, nevents, failures>>

\* w.stream yields an event only while w._stop is unset
StreamYields == pc = "loop" /\ subscribed /\ ~w_stop

\* the stream yields event e and the loop body runs on it
Event(e) ==
    /\ StreamYields
    /\ nevents < MaxEvents
    /\ LET n == LoopBody(Locals, e, expected_status) IN
        /\ pc' = n.pc
        /\ w_stop' = n.w_stop
        /\ ready_condition' = n.ready_condition
        /\ result' = n.result
        /\ ret' = n.ret
        /\ exc' = n.exc
    /\ event' = e
    /\ nevents' = nevents + 1
    /\ UNCHANGED <<expected_status, progress, tasks, subscribed, failures>>

\* the loop asks for the next event after w.stop(): the stream ends, the
\* loop is left and _wait returns None
StreamEnds ==
    /\ pc = "loop"
    /\ w_stop
    /\ pc' = "done"
    /\ ret' = NoneDict
    /\ UNCHANGED <<expected_status, progress, tasks, subscribed, w_stop, event,
                   ready_condition, result, exc, nevents, failures>>

\* the watch request fails (connection drop, server error): the exception
\* leaves w.stream and, no handler being in place, ready()
StreamFails ==
    /\ StreamYields
    /\ failures' = failures + 1
    /\ subscribed' = FALSE
    /\ pc' = "raised"
    /\ exc' = "ApiException"
    /\ UNCHANGED <<expected_status, progress, tasks, w_stop, event,
                   ready_condition, result, ret, nevents>>

\* the steps of the twin call; it takes each step of the stream that the
\* call itself takes, as far as its own position allows

TwinCalled(t, prog) ==
    [t EXCEPT !.pc = IF Announce(prog).wait THEN "loop" ELSE "done",
              !.progress = prog,
              !.tasks = @ + Announce(prog).add_task,
              !.subscribed = Announce(prog).wait]

TwinYields(t) == t.pc = "loop" /\ t.subscribed /\ ~t.w_stop

TwinEvent(t, e, expected) ==
    IF TwinYields(t)
    THEN [LoopBody(t, e, expected) EXCEPT !.nevents = @ + 1]
    ELSE t

TwinEnds(t) ==
    IF t.pc = "loop" /\ t.w_stop
    THEN [t EXCEPT !.pc = "done", !.ret = NoneDict]
    ELSE t

TwinFails(t) ==
    IF TwinYields(t)
    THEN [t EXCEPT !.pc = "raised", !.exc = "ApiException", !.subscribed = FALSE]
    ELSE t

Next ==
    \/ \E expected \in ExpectedStatuses, prog \in BOOLEAN :
          /\ Call(expected, prog)
          /\ twin' = TwinCalled(twin, ~prog)
          /\ UNCHANGED aside
    \/ \E e \in Events :
          /\ Event(e)
          /\ twin' = TwinEvent(twin, e, expected_status)
          /\ UNCHANGED aside
    \/ StreamEnds /\ twin' = TwinEnds(twin) /\ UNCHANGED aside
    \/ StreamFails /\ twin' = TwinFails(twin) /\ UNCHANGED aside

Spec == Init /\ [][Next]_vars

\* the steps ready() takes by itself; the arrival of an event or of a
\* failure is up to the cluster
FairSpec == Spec /\ WF_vars(StreamEnds /\ twin' = TwinEnds(twin) /\ UNCHANGED aside)

-----------------------------------------------------------------------------
(* create() and update() of the client *)

\* truth value of a dict-or-None
TruthyDict(d) == d /= NoneDict /\ d /= EmptyDict

\* values of metadata.name and metadata.namespace in a manifest
Names == {None, "", "test"}

Namespaces == {None, "", "tenant-a"}

Metadatas ==
    { a @@ b : a \in {EmptyDict} \cup {"name" :> x : x \in Names},
               b \in {EmptyDict} \cup {"namespace" :> x : x \in Namespaces} }

\* manifests, without the parts create() and update() do not look at
Manifests ==
    {EmptyDict, "metadata" :> NoneDict} \cup {"metadata" :> md : md \in Metadatas}

\* what a call comes to: the exception it raises (None when it raises
\* none) and the requests it sends to the cluster API
Raises(e) == [exc |-> e, sent |-> <<>>]

Sends(request) == [exc |-> None, sent |-> <<request>>]

\* create() without the test of namespace and name
create_Unchecked(manifest) ==
    IF "metadata" \notin DOMAIN manifest THEN Raises("KeyError")
    ELSE IF ~TruthyDict(manifest.metadata) THEN Raises("TypeError")
    ELSE IF "namespace" \notin DOMAIN manifest.metadata THEN Raises("KeyError")
    ELSE IF "name" \notin DOMAIN manifest.metadata THEN Raises("KeyError")
    ELSE Sends([method |-> "create_namespaced_custom_object",
                namespace |-> manifest.metadata.namespace,
                body |-> manifest])

\* lines 40-55
create(manifest) ==
    IF "metadata" \notin DOMAIN manifest THEN Raises("KeyError")
    ELSE IF ~TruthyDict(manifest.metadata) THEN Raises("TypeError")
    ELSE IF "namespace" \notin DOMAIN manifest.metadata THEN Raises("KeyError")
    ELSE IF "name" \notin DOMAIN manifest.metadata THEN Raises("KeyError")
    ELSE LET namespace == manifest.metadata.namespace
             name == manifest.metadata.name
         IN  IF ~Truthy(namespace) \/ ~Truthy(name) THEN Raises("ValueError")
             ELSE Sends([method |-> "create_namespaced_custom_object",
                         namespace |-> namespace,
                         body |-> manifest])

\* lines 57-72
update(manifest) ==
    IF "metadata" \notin DOMAIN manifest THEN Raises("KeyError")
    ELSE IF ~TruthyDict(manifest.metadata) THEN Raises("TypeError")
    ELSE IF "namespace" \notin DOMAIN manifest.metadata THEN Raises("KeyError")
    ELSE IF "name" \notin DOMAIN manifest.metadata THEN Raises("KeyError")
    ELSE LET namespace == manifest.metadata.namespace
             name == manifest.metadata.name
         IN  IF ~Truthy(namespace) \/ ~Truthy(name) THEN Raises("ValueError")
             ELSE Sends([method |-> "replace_namespaced_custom_object",
                         namespace |-> namespace,
                         name |-> name,
                         body |-> manifest])

\* one call of create() or update(), whose outcome is `out`; a request that
\* was sent is answered, or fails with ApiException (accepted = FALSE)
ClientCall(fn, manifest, out, accepted) ==
    /\ api.ncalls < MaxCalls
    /\ api' = [ requests |-> api.requests \o out.sent,
                ncalls |-> api.ncalls + 1,
                call |-> [ fn |-> fn,
                           manifest |-> manifest,
                           exc |-> IF out.sent /= <<>> /\ ~accepted
                                   THEN "ApiException" ELSE out.exc ] ]
    /\ UNCHANGED <<watch, mc>>

Create(manifest, accepted) ==
    ClientCall("create", manifest, create(manifest), accepted)

Update(manifest, accepted) ==
    ClientCall("update", manifest, update(manifest), accepted)

ManifestNext ==
    \/ \E manifest \in Manifests, accepted \in BOOLEAN :
          Create(manifest, accepted) /\ UNCHANGED cli
    \/ \E manifest \in Manifests, accepted \in BOOLEAN :
          Update(manifest, accepted) /\ UNCHANGED cli

ManifestSpec == Init /\ [][ManifestNext]_vars

-----------------------------------------------------------------------------
(* match_condition() on its own *)

\* condition records: each of type, status and reason may be missing, and
\* a record may carry a field the matcher does not look at
ConditionRecords ==
    { t @@ st @@ r @@ x :
        t  \in {EmptyDict} \cup {"type" :> v : v \in {"Ready", "Paused"}},
        st \in {EmptyDict} \cup {"status" :> v : v \in {"True", "False", "Unknown"}},
        r  \in {EmptyDict} \cup {"reason" :> v : v \in
                 {"VirtualServerStopped", "VirtualServerReady", "Terminating", "Starting"}},
        x  \in {EmptyDict, "message" :> "ok"} }

\* a call match_condition(condition, expected)
Match(condition, expected) ==
    /\ mc' = [condition |-> condition, expected_status |-> expected,
              returned |-> match_condition(condition, expected)]
    /\ UNCHANGED <<watch, api, cli>>

MatchNext ==
    \E condition \in ConditionRecords, expected \in ExpectedStatuses :
        Match(condition, expected)

MatchSpec == Init /\ [][MatchNext]_vars

-----------------------------------------------------------------------------
(* The create command of main.py, from the create request on *)

\* host names that the pattern [0-9.]+ of line 159 matches
Dotted == IPs \cup {"10.0.0.9"}

\* the file ~/.ssh/config: whether it exists, and its Host entries
SshConfigs ==
    { [exists |-> FALSE, hosts |-> <<>>],
      [exists |-> TRUE, hosts |-> <<>>],
      [exists |-> TRUE, hosts |-> <<[Host |-> "test", HostName |-> "10.0.0.9", User |-> "eddie"]>>],
      [exists |-> TRUE, hosts |-> <<[Host |-> "test", HostName |-> "vm.example.org", User |-> "eddie"]>>],
      [exists |-> TRUE, hosts |-> <<[Host |-> "other", HostName |-> "10.0.0.9", User |-> "eddie"]>>] }

\* the manifests that reach line 139: lines 87 and 95 have stored a
\* namespace and a name in metadata
CommandManifests ==
    { manifest \in Manifests :
        /\ "metadata" \in DOMAIN manifest
        /\ manifest.metadata /= NoneDict
        /\ DOMAIN manifest.metadata = {"name", "namespace"} }

\* lines 157-165: the HostName of every entry `Host name` with a dotted
\* HostName is replaced; when there is none, an entry is appended
Rewrite(hosts, name, ip_address, username) ==
    IF \E i \in 1..Len(hosts) : hosts[i].Host = name /\ hosts[i].HostName \in Dotted
    THEN [ i \in 1..Len(hosts) |->
             IF hosts[i].Host = name /\ hosts[i].HostName \in Dotted
             THEN [hosts[i] EXCEPT !.HostName = ip_address]
             ELSE hosts[i] ]
    ELSE Append(hosts, [Host |-> name, HostName |-> ip_address, User |-> username])

\* lines 52-126: the manifest is loaded and edited; config is the
\* ~/.ssh/config of the user at that time
Command(manifest, config) ==
    /\ cli.pc = "none"
    /\ pc = "idle"
    /\ cli' = [ pc |-> "start",
                manifest |-> manifest,
                name |-> manifest.metadata.name,
                username |-> "eddie",
                ip_address |-> None,
                ssh_config |-> config,
                ssh_config0 |-> config,
                writes |-> 0,
                pings |-> 0,
                steps |-> <<>>,
                exc |-> None ]
    /\ UNCHANGED <<watch, api, mc>>

\* line 139: client.create(manifest)
CommandCreate(accepted) ==
    /\ cli.pc = "start"
    /\ Create(cli.manifest, accepted)
    /\ cli' = [cli EXCEPT
                 !.pc = IF api'.call.exc = None THEN "created" ELSE "failed",
                 !.exc = api'.call.exc,
                 !.steps = IF Len(api'.requests) > Len(api.requests)
                           THEN Append(@, "create") ELSE @]

\* line 150: client.ready(namespace, name, expected_status='Ready',
\* progress=progress)
CommandReady ==
    /\ cli.pc = "created"
    /\ Call("Ready", TRUE)
    /\ twin' = TwinCalled(twin, FALSE)
    /\ cli' = [cli EXCEPT !.pc = "watching", !.steps = Append(@, "watch")]
    /\ UNCHANGED <<api, mc>>

\* AfterReady where an exception of ready() is caught and the command
\* carries on without an address
AfterReady_Swallow(c, ready_pc, ready_ret, ready_exc) ==
    IF ready_pc = "done" /\ ready_ret /= NoneDict
    THEN [c EXCEPT !.pc = "have_ip", !.ip_address = ready_ret.ip]
    ELSE [c EXCEPT !.pc = "have_ip", !.ip_address = ""]

\* lines 150-154: an exception of ready() ends the command; a result that
\* is None ends it with ValueError; otherwise the address is taken
AfterReady(c, ready_pc, ready_ret, ready_exc) ==
    IF ready_pc = "raised"
    THEN [c EXCEPT !.pc = "failed", !.exc = ready_exc]
    ELSE IF ready_ret /= NoneDict
         THEN [c EXCEPT !.pc = "have_ip", !.ip_address = ready_ret.ip]
         ELSE [c EXCEPT !.pc = "failed", !.exc = "ValueError"]

CommandResult ==
    /\ cli.pc = "watching"
    /\ pc \in {"done", "raised"}
    /\ cli' = AfterReady(cli, pc, ret, exc)
    /\ UNCHANGED <<watch, api, mc>>

\* lines 156-165: ~/.ssh/config is read, rewritten and written back; open()
\* raises when the file does not exist
CommandSshConfig ==
    /\ cli.pc = "have_ip"
    /\ cli' = IF ~cli.ssh_config.exists
              THEN [cli EXCEPT !.pc = "failed", !.exc = "FileNotFoundError"]
              ELSE [cli EXCEPT
                      !.pc = "configured",
                      !.ssh_config.hosts =
                          Rewrite(@, cli.name, cli.ip_address, cli.username),
                      !.writes = @ + 1,
                      !.steps = Append(@, "ssh_config")]
    /\ UNCHANGED <<watch, api, mc>>

\* lines 168-179: one ping; the loop ends with the first that is answered
CommandPing(answered) ==
    /\ cli.pc = "configured"
    /\ answered \/ cli.pings + 1 < MaxPings
    /\ cli' = [cli EXCEPT !.pings = @ + 1,
                          !.pc = IF answered THEN "up" ELSE @,
                          !.steps = Append(@, "ping")]
    /\ UNCHANGED <<watch, api, mc>>

\* StreamEnds is no step of the command: its watch is for Ready, where
\* w.stop() is followed at once by return (CommandWatchNeverIdlesStopped)
CommandNext ==
    \/ \E manifest \in CommandManifests, config \in SshConfigs :
          Command(manifest, config)
    \/ \E accepted \in BOOLEAN : CommandCreate(accepted)
    \/ CommandReady
    \/ \E e \in Events :
          /\ cli.pc = "watching"
          /\ Event(e)
          /\ twin' = TwinEvent(twin, e, expected_status)
          /\ UNCHANGED aside
    \/ cli.pc = "watching" /\ StreamFails /\ twin' = TwinFails(twin) /\ UNCHANGED aside
    \/ CommandResult
    \/ CommandSshConfig
    \/ \E answered \in BOOLEAN : CommandPing(answered)

CommandSpec == Init /\ [][CommandNext]_vars

\* in the command, the watch is never in its loop with w._stop set
CommandWatchNeverIdlesStopped == ~(pc = "loop" /\ w_stop)

-----------------------------------------------------------------------------
TypeOK ==
    /\ pc \in {"idle", "loop", "done", "raised"}
    /\ expected_status \in ExpectedStatuses \cup {None}
    /\ progress \in BOOLEAN
    /\ tasks \in 0..1
    /\ subscribed \in BOOLEAN
    /\ w_stop \in BOOLEAN
    /\ event \in Events \cup {EmptyDict}
    /\ ready_condition \in DOMAIN EXPECTED_CONDITIONS \cup {None, "Deleted"}
    /\ result \in {EmptyDict} \cup [ip : IPs]
    /\ ret \in {NoneDict} \cup [ip : IPs]
    /\ exc \in {None, "KeyError", "IndexError", "ApiException"}
    /\ nevents \in 0..MaxEvents
    /\ failures \in 0..1
    /\ api.ncalls \in 0..MaxCalls
    /\ Len(api.requests) <= api.ncalls

-----------------------------------------------------------------------------
(* Vocabulary of the properties *)

Outcomes == DOMAIN EXPECTED_CONDITIONS

\* the loop body has run on `event`
Processed == nevents > 0

HasConditions(e) ==
    /\ "status" \in DOMAIN e.object
    /\ "conditions" \in DOMAIN e.object.status

HasPrimary(e) == HasConditions(e) /\ Len(e.object.status.conditions) > 0

Primary(e) == e.object.status.conditions[1]

\* the outcome whose vocabulary entry the primary condition of e equals
Matched(e) ==
    IF HasPrimary(e) /\ \E n \in Outcomes : match_condition(Primary(e), n) = n
    THEN CHOOSE n \in Outcomes : match_condition(Primary(e), n) = n
    ELSE None

HasIP(e) ==
    /\ "status" \in DOMAIN e.object
    /\ "network" \in DOMAIN e.object.status
    /\ "externalIP" \in DOMAIN e.object.status.network

Ended == pc \in {"done", "raised"}

\* a terminal decision has been taken: ready() is over, or an outcome has
\* been recognised
Decided == Ended \/ ready_condition \in Outcomes \cup {"Deleted"}

-----------------------------------------------------------------------------
(* C1 *)

\* C1: when the event just processed is not a deletion and its primary
\* condition equals the vocabulary entry of a registered outcome other than
\* the requested one, the watch has resolved to that outcome and stopped.
C1_OtherOutcomeResolves ==
    ( /\ Processed
      /\ event.type /= "DELETED"
      /\ expected_status \in Outcomes
      /\ Matched(event) \notin {None, expected_status} )
    => (ready_condition = Matched(event) /\ w_stop)

-----------------------------------------------------------------------------
(* C2 *)

\* C2: every watch session terminates: a watch that is waiting in its loop
\* eventually returns or raises, whatever the stream does.
C2_WatchTerminates == (pc = "loop") ~> Ended

-----------------------------------------------------------------------------
(* C3 *)

\* C3: when the event just processed is of kind Deleted, the watch has ended
\* with the Deleted outcome and has stopped its subscription, whatever the
\* conditions of the snapshot.
C3_DeletedEndsWatch ==
    (Processed /\ event.type = "DELETED")
    => (pc = "done" /\ ready_condition = "Deleted" /\ w_stop)

-----------------------------------------------------------------------------
(* C4 *)

\* C4: when the event just processed is not a deletion and has no conditions
\* or an empty conditions list, no match and no error came of it: the watch
\* has not returned, has not stopped, and no exception of the loop body is
\* raised.
C4_EmptyConditionsKeepWaiting ==
    ( /\ Processed
      /\ event.type /= "DELETED"
      /\ ~HasPrimary(event) )
    => ( /\ pc /= "done"
         /\ ~w_stop
         /\ exc \notin {"IndexError", "KeyError"} )

-----------------------------------------------------------------------------
(* C5 *)

\* C5: once a terminal decision is taken, no step processes a further event
\* or changes the decision; once ready() is over, nothing changes any more.
C5_DecisionIsFinal ==
    [][ Decided =>
          /\ nevents' = nevents
          /\ event' = event
          /\ ready_condition' = ready_condition
          /\ result' = result
          /\ exc' = exc
          /\ (Ended => (pc' = pc /\ ret' = ret)) ]_vars

\* a watch that matched Stopped or Terminating has ended while the stream
\* still had events to deliver
C5_Witness ==
    /\ pc = "done"
    /\ ready_condition \in {"Stopped", "Terminating"}
    /\ nevents < MaxEvents

-----------------------------------------------------------------------------
(* C6 *)

\* the event just processed matched the requested outcome Ready and carries
\* no network info or no externalIP
ReadyWithoutIP ==
    /\ Processed
    /\ expected_status = "Ready"
    /\ Matched(event) = "Ready"
    /\ ~HasIP(event)

-----------------------------------------------------------------------------
(* C7 *)

\* C7: a watch started with a name that is no key of the vocabulary has
\* failed with UnknownOutcome, without a subscription and without an event
\* processed.
C7_UnknownOutcomeFails ==
    (pc /= "idle" /\ expected_status \notin Outcomes)
    => ( /\ pc = "raised"
         /\ exc = "UnknownOutcome"
         /\ ~subscribed
         /\ nevents = 0 )

-----------------------------------------------------------------------------
(* C8 *)

\* the watch request is in place and w.stop() has not been called
SubscriptionOpen == subscribed /\ ~w_stop

\* C8: whenever ready() is over, by return or by exception, its subscription
\* is closed.
C8_ClosedOnEveryExit == Ended => ~SubscriptionOpen

-----------------------------------------------------------------------------
(* C9 *)

\* C9: a transport failure is surfaced to the caller only when it is the
\* second one: after a single failure the watch has not raised.
C9_OneReconnection == (pc = "raised" /\ exc = "ApiException") => failures >= 2

-----------------------------------------------------------------------------
(* C10 *)

\* a watch that returned on a Stopped or Terminating match of a resource
\* that exists returns None
OtherOutcomeReturnsNone ==
    ( /\ pc = "done"
      /\ event.type /= "DELETED"
      /\ ready_condition \in {"Stopped", "Terminating"} )
    => ret = NoneDict

\* C10: the value ready() returns for a deleted resource differs from the
\* one it returns for a resource that resolved to Stopped or Terminating
\* (which is None, by OtherOutcomeReturnsNone).
C10_DeletedIsDistinct ==
    (pc = "done" /\ (ready_condition = "Deleted" \/ event.type = "DELETED"))
    => ret /= NoneDict

-----------------------------------------------------------------------------
(* C11 *)

\* name and namespace of the manifest are both there and non-empty
Identified(manifest) ==
    /\ "metadata" \in DOMAIN manifest
    /\ manifest.metadata /= NoneDict
    /\ "name" \in DOMAIN manifest.metadata
    /\ "namespace" \in DOMAIN manifest.metadata
    /\ manifest.metadata.name \notin {None, ""}
    /\ manifest.metadata.namespace \notin {None, ""}

\* C11: a step of create() or update() on a manifest whose metadata, name
\* or namespace is missing or empty raises and sends no request; every
\* request ever sent carries a non-empty name and namespace.
C11_InvalidManifestFailsFirst ==
    /\ [] ( /\ \A i \in 1..Len(api.requests) : Identified(api.requests[i].body)
            /\ (api.ncalls > 0 /\ ~Identified(api.call.manifest)) =>
                  api.call.exc \in {"TypeError", "ValueError", "KeyError"} )
    /\ [][ (api'.ncalls = api.ncalls + 1 /\ ~Identified(api'.call.manifest))
             => api'.requests = api.requests ]_vars

\* a create() with an empty name has raised after an earlier call had sent
\* its request
C11_Witness ==
    /\ api.ncalls = 2
    /\ Len(api.requests) = 1
    /\ api.call.fn = "create"
    /\ "metadata" \in DOMAIN api.call.manifest
    /\ api.call.manifest.metadata /= NoneDict
    /\ Get(api.call.manifest.metadata, "name", None) = ""
    /\ api.call.exc = "ValueError"

-----------------------------------------------------------------------------
(* C12 *)

\* the watch is in its loop, waiting for the next event
Waiting == pc = "loop" /\ ~w_stop

\* an event that is no deletion and has no conditions, an empty conditions
\* list, or a primary condition that is no vocabulary entry
NonTerminal(e) == e.type /= "DELETED" /\ Matched(e) = None

\* an event that is no deletion, whose primary condition is the Ready entry
\* and whose network info carries an externalIP
ReadyWithIP(e) == e.type /= "DELETED" /\ Matched(e) = "Ready" /\ HasIP(e)

\* C12: in a watch for Ready, each non-terminal event leaves the watch
\* waiting, and the first Ready event that follows makes it return the
\* externalIP of that event.
C12_FirstReadyResolves ==
    [][ (expected_status = "Ready" /\ Waiting /\ nevents' = nevents + 1) =>
          /\ NonTerminal(event') => (pc' = "loop" /\ ~w_stop' /\ exc' = exc)
          /\ ReadyWithIP(event') =>
               /\ pc' = "done"
               /\ ret' = [ip |-> event'.object.status.network.externalIP] ]_vars

-----------------------------------------------------------------------------
(* C13 *)

\* type, status and reason of the record are there and equal those of the
\* vocabulary entry
AllThreeEqual(condition, entry) ==
    \A f \in {"type", "status", "reason"} :
        f \in DOMAIN condition /\ condition[f] = entry[f]

\* C13: for a registered outcome name, match_condition reports a match (it
\* returns the name) when type, status and reason all equal the entry's,
\* and no match (it returns None) otherwise; an entry matches itself.
C13_MatchIffAllThree ==
    (mc /= EmptyDict /\ mc.expected_status \in Outcomes) =>
        LET entry == EXPECTED_CONDITIONS[mc.expected_status] IN
        /\ AllThreeEqual(mc.condition, entry) => mc.returned = mc.expected_status
        /\ ~AllThreeEqual(mc.condition, entry) => mc.returned = None
        /\ mc.condition = entry => mc.returned = mc.expected_status

\* a record that agrees with the entry in type and status and differs in
\* the reason alone has been reported as no match
C13_Witness ==
    /\ mc /= EmptyDict
    /\ mc.expected_status = "Stopped"
    /\ mc.condition = EXPECTED_CONDITIONS["Terminating"]
    /\ mc.returned = None

-----------------------------------------------------------------------------
(* C14 *)

\* C14: when ready() has returned on an event whose primary condition
\* matches the requested outcome, the value it returned is not empty: it
\* stands for that outcome.
C14_RequestedOutcomeIsReturned ==
    ( /\ pc = "done"
      /\ expected_status \in Outcomes
      /\ event.type /= "DELETED"
      /\ Matched(event) = expected_status )
    => ret /= NoneDict

-----------------------------------------------------------------------------
(* C16 *)

\* the primary condition of e matches no outcome and a later condition of
\* e equals the entry of the outcome `expected`
LaterConditionMatches(e, expected) ==
    /\ HasPrimary(e)
    /\ Matched(e) = None
    /\ \E i \in 2..Len(e.object.status.conditions) :
          match_condition(e.object.status.conditions[i], expected) = expected

\* C16: a step that processes an event whose first condition matches no
\* outcome leaves the watch waiting with no outcome recognised, also when a
\* later condition of the event equals the requested entry.
C16_OnlyFirstCondition ==
    [][ (Waiting /\ nevents' = nevents + 1
                 /\ LaterConditionMatches(event', expected_status)) =>
          /\ pc' = "loop"
          /\ ~w_stop'
          /\ ready_condition' = None
          /\ ret' = ret
          /\ exc' = exc ]_vars

\* the watch is waiting after an event whose second condition is the
\* requested entry
C16_Witness ==
    /\ Processed
    /\ Waiting
    /\ LaterConditionMatches(event, expected_status)

-----------------------------------------------------------------------------
(* C17 *)

\* ret is the externalIP of the event that ended the watch, and that event
\* has the Ready entry as its primary condition
IPOfReadyEvent ==
    /\ Processed
    /\ Matched(event) = "Ready"
    /\ HasIP(event)
    /\ ret = [ip |-> event.object.status.network.externalIP]

\* C17: when ready() has returned, its value is None or the externalIP of
\* an event whose primary condition is the Ready entry; a value other than
\* None comes only from a watch for Ready, and never from a Deleted event.
C17_IPOnlyFromReadyEvent ==
    pc = "done" =>
        \/ ret = NoneDict
        \/ /\ expected_status = "Ready"
           /\ IPOfReadyEvent
           /\ event.type /= "DELETED"

\* the same without the clause on Deleted events
IPOnlyFromReadyMatch ==
    pc = "done" => (ret = NoneDict \/ (expected_status = "Ready" /\ IPOfReadyEvent))

-----------------------------------------------------------------------------
(* C15 *)

\* C15: the call of ready() with a progress handle and the call without
\* one, given the same arguments and the same stream, are at the same
\* position, have processed the same number of events, recognised the same
\* outcome and returned or raised the same.
C15_ProgressIsObservational ==
    pc /= "idle" =>
        /\ twin.progress /= progress
        /\ twin.pc = pc
        /\ twin.nevents = nevents
        /\ twin.w_stop = w_stop
        /\ twin.ready_condition = ready_condition
        /\ twin.ret = ret
        /\ twin.exc = exc

\* both calls have returned the address of a Ready event, one having
\* announced the wait on its progress handle and the other not
C15_Witness ==
    /\ pc = "done"
    /\ ret \in [ip : IPs]
    /\ twin.ret = ret
    /\ tasks + twin.tasks = 1

-----------------------------------------------------------------------------
(* C18 *)

\* the place of a step in the order of the create command
Rank(step) ==
    CASE step = "create" -> 1
      [] step = "watch" -> 2
      [] step = "ssh_config" -> 3
      [] step = "ping" -> 4

\* the steps taken so far are in the order create, watch, ssh_config, ping,
\* each of the first three once and none left out
InOrder(steps) ==
    /\ \A i \in 1..Len(steps) :
         Rank(steps[i]) = IF i <= 4 THEN i ELSE 4

\* C18: the create command takes its steps in the order create request,
\* watch, SSH-config rewrite, ping; it writes the SSH config and pings only
\* after ready() has returned an address, which is the one it writes; and a
\* command that has failed has left the SSH config as it was.
C18_CommandOrder ==
    cli.pc /= "none" =>
        /\ InOrder(cli.steps)
        /\ (cli.writes > 0 \/ cli.pings > 0 \/ cli.ssh_config /= cli.ssh_config0) =>
              /\ pc = "done"
              /\ expected_status = "Ready"
              /\ ret \in [ip : IPs]
              /\ cli.ip_address = ret.ip
              /\ cli.writes = 1
        /\ cli.pc = "failed" =>
              /\ cli.writes = 0
              /\ cli.pings = 0
              /\ cli.ssh_config = cli.ssh_config0
        /\ (pc = "raised" \/ (pc = "done" /\ ret = NoneDict)) =>
              cli.pc \in {"watching", "failed"}

\* the command has run to its end: the server answered the second ping,
\* after an entry with its address was added to the SSH config
C18_Witness ==
    /\ cli.pc = "up"
    /\ cli.steps = <<"create", "watch", "ssh_config", "ping", "ping">>
    /\ cli.ssh_config /= cli.ssh_config0
    /\ \E i \in 1..Len(cli.ssh_config.hosts) :
          /\ cli.ssh_config.hosts[i].Host = cli.name
          /\ cli.ssh_config.hosts[i].HostName = ret.ip

====
